---- MODULE Spec2Model ----
(***************************************************************************)
(* Verification model of the acquisition-function optimizers and factories *)
(* of botorch:                                                             *)
(*   botorch/optim/optimize.py        sequential_optimize, joint_optimize, *)
(*                                    gen_batch_initial_candidates         *)
(*   botorch/acquisition/utils.py     get_acquisition_function             *)
(*   botorch/acquisition/batch_modules.py  BatchAcquisitionFunction        *)
(* Tensors are sequences of points; a point is a small integer.  A tensor  *)
(* that may be None is a record with a `none` flag.                        *)
(***************************************************************************)
EXTENDS Integers, Sequences, FiniteSets, TLC

VARIABLES
    \* ---- sequential_optimize (optimize.py:21-80) ----
    s_pc,                  \* position: "start", "loop", "done", "raised", "failed"
    has_X_baseline,        \* hasattr(acq_function, "X_baseline")
    X_baseline,            \* acq_function.X_baseline
    q,                     \* argument q
    post_processing_func,  \* argument post_processing_func: "None" or "round"
    candidate_list,        \* local candidate_list
    candidates,            \* local candidates
    base_X_baseline,       \* local base_X_baseline
    s_exc,                 \* exception leaving sequential_optimize, or "none"
    jo_calls,              \* history: the q argument of every joint_optimize call
    jo_results,            \* history: what every joint_optimize call returned
    entry_X_baseline       \* history: X_baseline when sequential_optimize was entered

VARIABLES
    \* ---- gen_batch_initial_candidates (optimize.py:135-190) ----
    g_pc,                      \* position: "loop", "returned"
    factor,                    \* local factor
    raw_samples,               \* argument raw_samples
    batch_initial_candidates,  \* local batch_initial_candidates (unbound: none)
    g_result,                  \* the returned tensor (none until returned)
    caller_warnings,           \* warnings that reach the caller, in order
    attempts                   \* history: one record per pass of the loop body

vars_gen == <<g_pc, factor, raw_samples, batch_initial_candidates, g_result,
              caller_warnings, attempts>>

VARIABLES
    \* ---- get_acquisition_function (acquisition/utils.py:20-113) ----
    a_pc,                       \* position: "start", "returned", "raised"
    acquisition_function_name,  \* argument acquisition_function_name
    acquisition_function_args,  \* argument acquisition_function_args
    posterior_mean,             \* model.posterior(X_observed).mean
    objective,                  \* argument objective
    constraints,                \* argument constraints
    seed_arg,                   \* argument seed
    a_module,                   \* the returned module
    a_exc,                      \* exception raised, or "none"
    posterior_queries,          \* history: calls of model.posterior
    init_calls,                 \* history: calls of a module constructor
    printed                     \* history: lines printed

vars_acq == <<a_pc, acquisition_function_name, acquisition_function_args,
              posterior_mean, objective, constraints, seed_arg, a_module, a_exc,
              posterior_queries, init_calls, printed>>

VARIABLES
    \* ---- BatchAcquisitionFunction (acquisition/batch_modules.py) ----
    cls,                        \* the class of the module
    X_pending,                  \* self.X_pending
    seed,                       \* self.seed
    X_observed_len,             \* number of points of self.X_observed
    base_samples,               \* self.base_samples and the three of qKnowledgeGradient
    base_samples_q_batch_size,  \* self.base_samples_q_batch_size
    f_pc,                       \* "new" until forward has been called, then "called"
    f_X,                        \* history: the argument of the last forward call
    f_arg,                      \* history: what that call passed to _forward
    f_result,                   \* history: what that call returned
    probe,                      \* history: a tensor whose forward values are compared
    probe_result,               \* history: what the first forward(probe) returned
    probe_hist                  \* history: 0 no forward(probe) yet, 1 one so far,
                                \* 2 then a call with another number of points,
                                \* 3 then forward(probe) again

vars_fwd == <<cls, X_pending, seed, X_observed_len, base_samples,
              base_samples_q_batch_size, f_pc, f_X, f_arg, f_result, probe,
              probe_result, probe_hist>>

VARIABLES
    \* ---- GPyTorchPosterior.rsample (posteriors/gpytorch.py:30-62) ----
    r_pc,              \* position: "start", "returned", "raised"
    event_shape,       \* self.mvn.event_shape
    sample_shape,      \* argument sample_shape (a shape, or None)
    rs_base_samples,   \* shape of the argument base_samples (or None)
    r_kwargs,          \* history: the keywords passed to self.mvn.rsample
    r_draws,           \* history: calls of self.mvn.rsample
    r_result,          \* shape of the returned samples
    r_exc              \* exception raised, or "none"

vars_rs == <<r_pc, event_shape, sample_shape, rs_base_samples, r_kwargs, r_draws,
             r_result, r_exc>>

VARIABLES
    \* ---- standardize (utils/transforms.py:15-26) ----
    t_pc,         \* position: "start", "done"
    st_X,         \* argument X, as the sequence of its columns
    st_X_std,     \* local X_std after the where, one divisor per column
    st_result     \* the returned tensor, as the sequence of its columns

vars_std == <<t_pc, st_X, st_X_std, st_result>>

vars_seq == <<s_pc, has_X_baseline, X_baseline, q, post_processing_func,
              candidate_list, candidates, base_X_baseline, s_exc, jo_calls,
              jo_results, entry_X_baseline>>

\* what an operation leaves alone: the state of the other operations
frame_seq == <<vars_gen, vars_acq, vars_fwd, vars_rs, vars_std>>
frame_gen == <<vars_seq, vars_acq, vars_fwd, vars_rs, vars_std>>
frame_acq == <<vars_seq, vars_gen, vars_fwd, vars_rs, vars_std>>
frame_fwd == <<vars_seq, vars_gen, vars_acq, vars_rs, vars_std>>
frame_rs == <<vars_seq, vars_gen, vars_acq, vars_fwd, vars_std>>
frame_std == <<vars_seq, vars_gen, vars_acq, vars_fwd, vars_rs>>

(***************************************************************************)
(* Bounds of the model.                                                    *)
(***************************************************************************)
MaxQ == 2          \* largest q passed to sequential_optimize
MaxPoint == 2      \* points are 0..MaxPoint
MaxBaseline == 1   \* longest initial X_baseline

Points == 0..MaxPoint

NoneT == [none |-> TRUE, pts |-> <<>>]
Tensor(s) == [none |-> FALSE, pts |-> s]

SeqsUpTo(S, n) == UNION {[1..k -> S] : k \in 0..n}

\* torch.cat over a list of 1 x d tensors along dim=-2
RECURSIVE cat(_)
cat(list) == IF list = <<>> THEN <<>> ELSE Head(list) \o cat(Tail(list))

\* A post_processing_func: rounds a point down to the even grid.
ApplyPostProcessing(f, c) ==
    IF f = "None" THEN c ELSE [k \in 1..Len(c) |-> c[k] - (c[k] % 2)]

(***************************************************************************)
(* sequential_optimize                                                     *)
(***************************************************************************)
InitSeq ==
    /\ s_pc = "start"
    /\ has_X_baseline \in BOOLEAN
    /\ X_baseline \in IF has_X_baseline
                      THEN {NoneT} \cup {Tensor(s) : s \in SeqsUpTo(Points, MaxBaseline)}
                      ELSE {NoneT}
    /\ q \in 0..MaxQ
    /\ post_processing_func \in {"None", "round"}
    /\ candidate_list = <<>>
    /\ candidates = <<>>
    /\ base_X_baseline = NoneT
    /\ s_exc = "none"
    /\ jo_calls = <<>>
    /\ jo_results = <<>>
    /\ entry_X_baseline = X_baseline

\* fault variant of sequential_optimize: the hasattr check is missing
sequential_optimize_no_check ==
    /\ UNCHANGED frame_seq
    /\ s_pc = "start"
    /\ s_pc' = "loop"
    /\ candidate_list' = <<>>
    /\ candidates' = <<>>
    /\ base_X_baseline' = X_baseline
    /\ UNCHANGED <<has_X_baseline, X_baseline, q, post_processing_func, s_exc,
                   jo_calls, jo_results, entry_X_baseline>>

\* optimize.py:50-57: the hasattr check and the locals set before the loop
sequential_optimize ==
    /\ UNCHANGED frame_seq
    /\ s_pc = "start"
    /\ IF ~has_X_baseline
       THEN /\ s_pc' = "raised"
            /\ s_exc' = "UnsupportedError"
            /\ UNCHANGED <<candidate_list, candidates, base_X_baseline>>
       ELSE /\ s_pc' = "loop"
            /\ s_exc' = "none"
            /\ candidate_list' = <<>>
            /\ candidates' = <<>>
            /\ base_X_baseline' = X_baseline
    /\ UNCHANGED <<has_X_baseline, X_baseline, q, post_processing_func,
                   jo_calls, jo_results, entry_X_baseline>>

\* optimize.py:83-132: joint_optimize returns the best of the restarts, a
\* `q x d` tensor; which points it finds is up to the numerical optimizer.
joint_optimize(q_arg) == [1..q_arg -> Points]

\* fault variant of sequential_optimize_iter: post_processing_func is not applied
sequential_optimize_iter_no_post ==
    /\ UNCHANGED frame_seq
    /\ s_pc = "loop"
    /\ Len(candidate_list) < q
    /\ \E candidate \in joint_optimize(1) :
         /\ jo_calls' = Append(jo_calls, 1)
         /\ jo_results' = Append(jo_results, candidate)
         /\ candidate_list' = Append(candidate_list, candidate)
         /\ candidates' = cat(candidate_list')
         /\ X_baseline' = IF ~base_X_baseline.none
                          THEN Tensor(base_X_baseline.pts \o candidates')
                          ELSE Tensor(candidates')
    /\ UNCHANGED <<s_pc, has_X_baseline, q, post_processing_func,
                   base_X_baseline, s_exc, entry_X_baseline>>

\* optimize.py:58-77: one iteration of the loop
sequential_optimize_iter ==
    /\ UNCHANGED frame_seq
    /\ s_pc = "loop"
    /\ Len(candidate_list) < q
    /\ \E candidate \in joint_optimize(1) :
         /\ jo_calls' = Append(jo_calls, 1)
         /\ jo_results' = Append(jo_results, candidate)
         /\ candidate_list' = Append(candidate_list,
                                 ApplyPostProcessing(post_processing_func, candidate))
         /\ candidates' = cat(candidate_list')
         /\ X_baseline' = IF ~base_X_baseline.none
                          THEN Tensor(base_X_baseline.pts \o candidates')
                          ELSE Tensor(candidates')
    /\ UNCHANGED <<s_pc, has_X_baseline, q, post_processing_func,
                   base_X_baseline, s_exc, entry_X_baseline>>

\* optimize.py:59: an exception of joint_optimize propagates out of the loop;
\* nothing catches it, so line 79 is not reached.
sequential_optimize_iter_raises ==
    /\ UNCHANGED frame_seq
    /\ s_pc = "loop"
    /\ Len(candidate_list) < q
    /\ jo_calls' = Append(jo_calls, 1)
    /\ s_pc' = "failed"
    /\ s_exc' = "RuntimeError"
    /\ UNCHANGED <<has_X_baseline, X_baseline, q, post_processing_func,
                   candidate_list, candidates, base_X_baseline, jo_results,
                   entry_X_baseline>>

\* fault variant of sequential_optimize_return: X_baseline is not reset
sequential_optimize_return_no_reset ==
    /\ UNCHANGED frame_seq
    /\ s_pc = "loop"
    /\ Len(candidate_list) >= q
    /\ s_pc' = "done"
    /\ UNCHANGED <<has_X_baseline, X_baseline, q, post_processing_func, candidate_list,
                   candidates, base_X_baseline, s_exc, jo_calls, jo_results,
                   entry_X_baseline>>

\* optimize.py:78-80: reset X_baseline and return candidates
sequential_optimize_return ==
    /\ UNCHANGED frame_seq
    /\ s_pc = "loop"
    /\ Len(candidate_list) >= q
    /\ X_baseline' = base_X_baseline
    /\ s_pc' = "done"
    /\ UNCHANGED <<has_X_baseline, q, post_processing_func, candidate_list,
                   candidates, base_X_baseline, s_exc, jo_calls, jo_results,
                   entry_X_baseline>>

NextSeq ==
    \/ sequential_optimize
    \/ sequential_optimize_iter
    \/ sequential_optimize_iter_raises
    \/ sequential_optimize_return

(***************************************************************************)
(* gen_batch_initial_candidates                                            *)
(***************************************************************************)
max_factor == 5
MaxRawSamples == 2     \* largest raw_samples argument

BadInitialCandidatesWarning == "BadInitialCandidatesWarning"
WarningCategories == {BadInitialCandidatesWarning, "RuntimeWarning"}

NoCandidates == [none |-> TRUE, n |-> 0, x |-> 0]

InitGen ==
    /\ g_pc = "loop"
    /\ factor = 1
    /\ raw_samples \in 1..MaxRawSamples
    /\ batch_initial_candidates = NoCandidates
    /\ g_result = NoCandidates
    /\ caller_warnings = <<>>
    /\ attempts = <<>>

\* fault variant of any_bad_initial_candidates: a warning of any category counts
any_warning(ws) == ws # {}

\* optimize.py:178-181: does the recorded list ws hold a warning that counts
any_bad_initial_candidates(ws) ==
    \E w \in ws : w = BadInitialCandidatesWarning

\* optimize.py:163-184: one pass of the while loop.  draw_sobol_samples draws
\* raw_samples * factor points, the acquisition function is evaluated on them
\* and initialize_q_batch picks the initial conditions among them; ws is the
\* set of warning categories recorded during the pass.
gen_batch_initial_candidates_attempt ==
    /\ UNCHANGED frame_gen
    /\ g_pc = "loop"
    /\ factor < max_factor
    /\ \E ws \in SUBSET WarningCategories, x \in Points :
         LET drawn == [none |-> FALSE, n |-> raw_samples * factor, x |-> x] IN
         /\ attempts' = Append(attempts, [n |-> raw_samples * factor, ws |-> ws,
                                           candidates |-> drawn])
         /\ batch_initial_candidates' = drawn
         /\ IF ~any_bad_initial_candidates(ws)
            THEN /\ g_pc' = "returned"
                 /\ g_result' = drawn
                 /\ UNCHANGED factor
            ELSE /\ factor' = IF factor < max_factor THEN factor + 1 ELSE factor
                 /\ UNCHANGED <<g_pc, g_result>>
    /\ UNCHANGED <<raw_samples, caller_warnings>>

\* fault variant of gen_batch_initial_candidates_exhausted: no warning is issued
gen_batch_initial_candidates_exhausted_silent ==
    /\ UNCHANGED frame_gen
    /\ g_pc = "loop"
    /\ ~(factor < max_factor)
    /\ g_result' = batch_initial_candidates
    /\ g_pc' = "returned"
    /\ UNCHANGED <<factor, raw_samples, batch_initial_candidates, attempts,
                   caller_warnings>>

\* optimize.py:185-190: the loop ran out of factors
gen_batch_initial_candidates_exhausted ==
    /\ UNCHANGED frame_gen
    /\ g_pc = "loop"
    /\ ~(factor < max_factor)
    /\ caller_warnings' = Append(caller_warnings, BadInitialCandidatesWarning)
    /\ g_result' = batch_initial_candidates
    /\ g_pc' = "returned"
    /\ UNCHANGED <<factor, raw_samples, batch_initial_candidates, attempts>>

NextGen ==
    \/ gen_batch_initial_candidates_attempt
    \/ gen_batch_initial_candidates_exhausted

(***************************************************************************)
(* get_acquisition_function                                                *)
(***************************************************************************)
MaxObserved == 2    \* most points in X_observed
MaxMean == 2        \* posterior means are 0..MaxMean
MaxBeta == 1        \* values in acquisition_function_args are 0..MaxBeta

Names == {"qEI", "qPI", "qNEI", "qKG", "qUCB", "qKGNoDiscretization",
          "qSR", "qei", "UCB", ""}

ArgKeys == {"beta", "eta"}

\* a dict, or None
NoneDict == [none |-> TRUE, d |-> <<>>]
Dict(d) == [none |-> FALSE, d |-> d]
ArgDicts == {NoneDict} \cup
            {Dict(d) : d \in UNION {[K -> 0..MaxBeta] : K \in SUBSET ArgKeys}}

NoModule == [cls |-> "none"]

RECURSIVE max(_)
max(t) == IF Len(t) = 1 THEN t[1]
          ELSE LET m == max(Tail(t)) IN IF t[1] >= m THEN t[1] ELSE m

InitAcq ==
    /\ a_pc = "start"
    /\ acquisition_function_name \in Names
    /\ acquisition_function_args \in ArgDicts
    /\ posterior_mean \in UNION {[1..k -> 0..MaxMean] : k \in 1..MaxObserved}
    /\ objective \in {"identity", "custom"}
    /\ constraints \in {"None", "list"}
    /\ seed_arg \in {"None", "seed"}
    /\ a_module = NoModule
    /\ a_exc = "none"
    /\ posterior_queries = 0
    /\ init_calls = 0
    /\ printed = <<>>

\* The parameters each __init__ accepts (batch_modules.py).
qExpectedImprovement_params ==
    {"model", "best_f", "objective", "constraints", "mc_samples", "X_pending", "seed"}
qNoisyExpectedImprovement_params ==
    {"model", "X_observed", "objective", "constraints", "mc_samples", "X_pending",
     "seed"}
qKnowledgeGradient_params ==
    {"model", "X_observed", "objective", "constraints", "mc_samples",
     "inner_mc_samples", "project", "cost", "X_pending", "seed"}
qProbabilityOfImprovement_params ==
    {"model", "best_f", "mc_samples", "X_pending", "seed"}
qUpperConfidenceBound_params ==
    {"model", "beta", "mc_samples", "X_pending", "seed"}
\* imported by utils.py:13; the class takes what utils.py:105-111 passes
qKnowledgeGradientNoDiscretization_params ==
    {"model", "objective", "constraints", "X_pending", "seed"}

init_params(klass) ==
    CASE klass = "qExpectedImprovement" -> qExpectedImprovement_params
      [] klass = "qNoisyExpectedImprovement" -> qNoisyExpectedImprovement_params
      [] klass = "qKnowledgeGradient" -> qKnowledgeGradient_params
      [] klass = "qProbabilityOfImprovement" -> qProbabilityOfImprovement_params
      [] klass = "qUpperConfidenceBound" -> qUpperConfidenceBound_params
      [] klass = "qKnowledgeGradientNoDiscretization" ->
             qKnowledgeGradientNoDiscretization_params

\* fault variant of branch: an unknown name falls back to qEI
branch_default_qEI(name) ==
    IF name \in {"qEI", "qPI", "qNEI", "qKG", "qUCB", "qKGNoDiscretization"}
    THEN name ELSE "qEI"

\* utils.py:57-113: the branch of the if/elif chain that a name selects
branch(name) ==
    CASE name = "qEI" -> "qEI"
      [] name = "qPI" -> "qPI"
      [] name = "qNEI" -> "qNEI"
      [] name = "qKG" -> "qKG"
      [] name = "qUCB" -> "qUCB"
      [] name = "qKGNoDiscretization" -> "qKGNoDiscretization"
      [] OTHER -> "else"

\* fault variant of beta_given: the value of beta is tested for truth
beta_given_truthy(args) ==
    /\ ~args.none
    /\ "beta" \in DOMAIN args.d
    /\ args.d["beta"] # 0

\* utils.py:94: acquisition_function_args and "beta" in acquisition_function_args
beta_given(args) ==
    /\ ~args.none
    /\ DOMAIN args.d # {}
    /\ "beta" \in DOMAIN args.d

\* A call cls(**kw): Python raises TypeError for a keyword __init__ does not
\* take; otherwise __init__ stores the arguments on the module.
construct(klass, kw) ==
    IF DOMAIN kw \subseteq init_params(klass)
    THEN [exc |-> "none", module |-> [cls |-> klass, kw |-> kw]]
    ELSE [exc |-> "TypeError", module |-> NoModule]

\* utils.py:57-113
get_acquisition_function ==
    /\ UNCHANGED frame_acq
    /\ a_pc = "start"
    /\ LET b == branch(acquisition_function_name)
           best_f == max(posterior_mean)
           common == [objective |-> objective, constraints |-> constraints,
                      X_pending |-> "X_pending", seed |-> seed_arg]
           plain == [X_pending |-> "X_pending", seed |-> seed_arg]
           call ==
             CASE b = "qEI" ->
                    construct("qExpectedImprovement",
                              [model |-> "model", best_f |-> best_f] @@ common)
               [] b = "qPI" ->
                    construct("qProbabilityOfImprovement",
                              [model |-> "model", best_f |-> best_f] @@ common)
               [] b = "qNEI" ->
                    construct("qNoisyExpectedImprovement",
                              [model |-> "model", X_observed |-> "X_observed"] @@ common)
               [] b = "qKG" ->
                    construct("qKnowledgeGradient",
                              [model |-> "model", X_observed |-> "X_observed"] @@ common)
               [] b = "qUCB" /\ beta_given(acquisition_function_args) ->
                    construct("qUpperConfidenceBound",
                              [model |-> "model",
                               beta |-> acquisition_function_args.d["beta"]] @@ plain)
               [] b = "qUCB" /\ ~beta_given(acquisition_function_args) ->
                    [exc |-> "ValueError", module |-> NoModule]
               [] b = "qKGNoDiscretization" ->
                    construct("qKnowledgeGradientNoDiscretization",
                              [model |-> "model"] @@ common)
               [] OTHER -> [exc |-> "NotImplementedError", module |-> NoModule]
           constructs == call.exc \in {"none", "TypeError"}
       IN /\ posterior_queries' = IF b \in {"qEI", "qPI"} THEN 1 ELSE 0
          /\ init_calls' = IF constructs THEN 1 ELSE 0
          /\ printed' = IF call.exc = "ValueError"
                        THEN <<"Beta must be specified in acquisition_function_args for qUCB.">>
                        ELSE <<>>
          /\ a_module' = call.module
          /\ a_exc' = call.exc
          /\ a_pc' = IF call.exc = "none" THEN "returned" ELSE "raised"
    /\ UNCHANGED <<acquisition_function_name, acquisition_function_args,
                   posterior_mean, objective, constraints, seed_arg>>

NextAcq == get_acquisition_function

(***************************************************************************)
(* BatchAcquisitionFunction.forward and the _forward of its subclasses     *)
(*                                                                         *)
(* A `b x q x d` tensor is [dim |-> 3, b |-> <<t-batch 1, ..., t-batch b>>]*)
(* and a `q x d` tensor is [dim |-> 2, b |-> <<its q points>>]; a t-batch  *)
(* is the sequence of its q points.                                        *)
(***************************************************************************)
MaxB == 2           \* most t-batches of an argument of forward
MaxPending == 2     \* most points of X_pending

Classes == {"qExpectedImprovement", "qNoisyExpectedImprovement",
            "qKnowledgeGradient", "qProbabilityOfImprovement",
            "qUpperConfidenceBound", "qSimpleRegret"}

NPoints == MaxPoint + 1

\* the arguments tried: t-batch i holds the points x0+i+1, ..., x0+i+nq
TensorOf(dim, nb, nq, x0) ==
    [dim |-> dim, b |-> [i \in 1..nb |-> [j \in 1..nq |-> (x0 + i + j) % NPoints]]]

Tensors ==
    {TensorOf(2, 1, nq, x0) : nq \in 1..MaxQ, x0 \in {0, 1}} \cup
    UNION {{TensorOf(3, nb, nq, x0) : nq \in 1..MaxQ, x0 \in {0, 1}} : nb \in 1..MaxB}

PendingTensors ==
    {NoneT} \cup {Tensor([j \in 1..k |-> (NPoints - j) % NPoints]) : k \in 1..MaxPending}

NoneInt == [none |-> TRUE, v |-> 0]
Int_(n) == [none |-> FALSE, v |-> n]

NoSamples == [none |-> TRUE, seed |-> 0, num_samples |-> 0, shape |-> 0]
NoBaseSamples ==
    [base_samples |-> NoSamples, inner_old_base_samples |-> NoSamples,
     inner_new_base_samples |-> NoSamples, fantasy_base_samples |-> NoSamples]

NoResult == [none |-> TRUE, v |-> <<>>]

\* default mc_samples of the constructors
mc_samples_default == 5000
mc_samples_qKG == 40
inner_mc_samples_qKG == 1000

mc_samples(c) == IF c = "qKnowledgeGradient" THEN mc_samples_qKG ELSE mc_samples_default

InitFwd ==
    /\ cls \in Classes
    /\ X_pending \in PendingTensors
    /\ seed \in {NoneInt, Int_(0)}
    /\ X_observed_len \in IF cls \in {"qNoisyExpectedImprovement", "qKnowledgeGradient"}
                           THEN 1..MaxObserved ELSE {0}
    /\ base_samples = NoBaseSamples
    /\ base_samples_q_batch_size = NoneInt
    /\ f_pc = "new"
    /\ f_X = TensorOf(2, 1, 1, 0)
    /\ f_arg = TensorOf(2, 1, 1, 0)
    /\ f_result = <<>>
    /\ probe \in IF seed.none THEN {TensorOf(2, 1, 1, 0)} ELSE Tensors
    /\ probe_result = NoResult
    /\ probe_hist = 0

\* X.shape[-2]
shape_q(X) == Len(X.b[1])

\* batch_utils.match_batch_size(X, Y): Y expanded to the batch size of X
match_batch_size(X, Y) ==
    [dim |-> X.dim, b |-> [i \in 1..Len(X.b) |-> Y.pts]]

\* fault variant of cat_points: the operands are swapped
cat_points_reversed(A, B) ==
    [dim |-> A.dim, b |-> [i \in 1..Len(A.b) |-> B.b[i] \o A.b[i]]]

\* torch.cat([A, B], dim=-2) of two tensors of equal batch size
cat_points(A, B) ==
    [dim |-> A.dim, b |-> [i \in 1..Len(A.b) |-> A.b[i] \o B.b[i]]]

\* batch_utils.construct_base_samples_from_posterior: the base samples are
\* drawn under the seed in the shape of the posterior
construct_base_samples_from_posterior(shape, num_samples, sd) ==
    [none |-> FALSE, seed |-> sd, num_samples |-> num_samples, shape |-> shape]

\* batch_modules.py:66-70, 181-187, 288-309: X is a `q x d` tensor
_construct_base_samples(c, X, n_obs, sd, old) ==
    CASE c = "qNoisyExpectedImprovement" ->
           [old EXCEPT !.base_samples =
              construct_base_samples_from_posterior(
                  shape_q(X) + n_obs, mc_samples(c), sd)]
      [] c = "qKnowledgeGradient" ->
           [old EXCEPT
              !.inner_old_base_samples =
                 construct_base_samples_from_posterior(n_obs, inner_mc_samples_qKG, sd),
              !.fantasy_base_samples =
                 construct_base_samples_from_posterior(shape_q(X), mc_samples(c), sd),
              !.inner_new_base_samples =
                 construct_base_samples_from_posterior(
                     shape_q(X) + n_obs, inner_mc_samples_qKG, sd)]
      [] OTHER ->
           [old EXCEPT !.base_samples =
              construct_base_samples_from_posterior(shape_q(X), mc_samples(c), sd)]

\* The samples a functional batch acquisition function evaluates with: the
\* base samples it is handed, or fresh draws (draw) when it is handed None.
samples_used(bs, draw) ==
    IF bs.none THEN [none |-> TRUE, seed |-> 0, num_samples |-> 0, shape |-> draw]
    ELSE bs

\* A functional batch acquisition function: one value for the t-batch Xi,
\* determined by Xi and the samples.
batch_value(Xi, smp) == [X |-> Xi, samples |-> smp]

\* fault variant of Xs: the t-batches are taken last first
Xs_reversed(X) ==
    IF X.dim > 2 THEN [i \in 1..Len(X.b) |-> X.b[Len(X.b) + 1 - i]] ELSE <<X.b[1]>>

\* batch_modules.py:323: list(X) if X.dim() > 2 else [X]
Xs(X) == IF X.dim > 2 THEN X.b ELSE <<X.b[1]>>

\* batch_modules.py:114-132, 189-208, 311-342, 376-393, 430-447, 475-491
_forward(c, X, bs, sd, draw) ==
    CASE c = "qKnowledgeGradient" ->
           [i \in 1..Len(Xs(X)) |->
              batch_value(Xs(X)[i],
                  <<samples_used(bs.inner_old_base_samples, draw),
                    samples_used(bs.inner_new_base_samples, draw),
                    samples_used(bs.fantasy_base_samples, draw)>>)]
      [] c = "qUpperConfidenceBound" ->
           [i \in 1..Len(X.b) |->
              batch_value(X.b[i],
                  <<samples_used(
                      IF sd.none THEN NoSamples
                      ELSE construct_base_samples_from_posterior(
                               shape_q(X), mc_samples(c), sd.v),
                      draw)>>)]
      [] OTHER ->
           [i \in 1..Len(X.b) |->
              batch_value(X.b[i], <<samples_used(bs.base_samples, draw)>>)]

\* fault variant of needs_base_samples: the cached size is compared with X.shape[0]
needs_base_samples_batch_dim(sd, size, X) ==
    /\ ~sd.none
    /\ size # Int_(IF X.dim = 2 THEN Len(X.b[1]) ELSE Len(X.b))

\* batch_modules.py:56-63: must the base samples be constructed for X
needs_base_samples(sd, size, X) ==
    /\ ~sd.none
    /\ size # Int_(shape_q(X))

\* batch_modules.py:50-64
forward ==
    /\ UNCHANGED frame_fwd
    /\ \E X \in Tensors, draw \in 0..1 :
       LET Xc == IF ~X_pending.none
                 THEN cat_points(X, match_batch_size(X, X_pending))
                 ELSE X
           rebuild == needs_base_samples(seed, base_samples_q_batch_size, Xc)
           \* X if X.dim() < 3 else X[0, ...]
           X0 == [dim |-> 2, b |-> <<Xc.b[1]>>]
       IN /\ base_samples' =
               IF rebuild
               THEN _construct_base_samples(cls, X0, X_observed_len, seed.v, base_samples)
               ELSE base_samples
          /\ base_samples_q_batch_size' =
               IF rebuild THEN Int_(shape_q(Xc)) ELSE base_samples_q_batch_size
          /\ f_pc' = "called"
          /\ f_X' = X
          /\ f_arg' = Xc
          /\ f_result' = _forward(cls, Xc, base_samples', seed, draw)
          /\ probe_result' = IF X = probe /\ probe_result.none
                             THEN [none |-> FALSE, v |-> f_result']
                             ELSE probe_result
          /\ probe_hist' =
               CASE X = probe /\ probe_hist = 0 -> 1
                 [] X = probe /\ probe_hist = 2 -> 3
                 [] X # probe /\ probe_hist = 1 /\ shape_q(X) # shape_q(probe) -> 2
                 [] OTHER -> probe_hist
          /\ UNCHANGED <<cls, X_pending, seed, X_observed_len, probe>>

NextFwd == forward

(***************************************************************************)
(* GPyTorchPosterior.rsample                                               *)
(*                                                                         *)
(* A shape is the sequence of its dimensions; only the shapes of tensors   *)
(* matter here.                                                            *)
(***************************************************************************)
MaxDim == 2          \* a dimension of a shape is 1..MaxDim
MaxSampleDims == 2   \* most dimensions of a sample shape
MaxEventDims == 2    \* most dimensions of the event shape

NoneShape == [none |-> TRUE, dims |-> <<>>]
Shape(d) == [none |-> FALSE, dims |-> d]

SampleShapes == UNION {[1..k -> 1..MaxDim] : k \in 0..MaxSampleDims}
EventShapes == UNION {[1..k -> 1..MaxDim] : k \in 1..MaxEventDims}

\* base samples "of appropriate dimension" (gpytorch.py:41-44): some sample
\* shape followed by the event shape
InitRs ==
    /\ r_pc = "start"
    /\ event_shape \in EventShapes
    /\ sample_shape \in {NoneShape} \cup {Shape(d) : d \in SampleShapes}
    /\ rs_base_samples \in
          {NoneShape} \cup {Shape(d \o event_shape) : d \in SampleShapes}
    /\ r_kwargs = {}
    /\ r_draws = 0
    /\ r_result = NoneShape
    /\ r_exc = "none"

\* t[:n] of a tuple
slice_to(t, n) == SubSeq(t, 1, IF n < Len(t) THEN n ELSE Len(t))

\* fault variant of shape_disagrees: the trailing dimensions are compared
shape_disagrees_trailing(base_shape, s_shape) ==
    SubSeq(base_shape,
           (IF Len(s_shape) < Len(base_shape)
            THEN Len(base_shape) - Len(s_shape) ELSE 0) + 1,
           Len(base_shape)) # s_shape

\* gpytorch.py:52
shape_disagrees(base_shape, s_shape) ==
    slice_to(base_shape, Len(s_shape)) # s_shape

\* gpytorch.py:51-62
rsample ==
    /\ UNCHANGED frame_rs
    /\ r_pc = "start"
    /\ IF /\ ~sample_shape.none
          /\ ~rs_base_samples.none
          /\ shape_disagrees(rs_base_samples.dims, sample_shape.dims)
       THEN /\ r_pc' = "raised"
            /\ r_exc' = "RuntimeError"
            /\ UNCHANGED <<r_kwargs, r_draws, r_result>>
       ELSE /\ r_kwargs' =
                 IF sample_shape.none /\ rs_base_samples.none THEN {}
                 ELSE IF ~rs_base_samples.none THEN {"base_samples"}
                 ELSE {"sample_shape"}
            /\ r_draws' = r_draws + 1
            \* self.mvn.rsample(**kwargs)
            /\ r_result' =
                 IF "base_samples" \in r_kwargs' THEN rs_base_samples
                 ELSE IF "sample_shape" \in r_kwargs'
                      THEN Shape(sample_shape.dims \o event_shape)
                      ELSE Shape(event_shape)
            /\ r_pc' = "returned"
            /\ r_exc' = "none"
    /\ UNCHANGED <<event_shape, sample_shape, rs_base_samples>>

NextRs == rsample

(***************************************************************************)
(* standardize                                                             *)
(*                                                                         *)
(* Entries of X are integers in units of 1e-10, and arithmetic is exact.   *)
(* With n rows, S the sum of a column and c[i] = n * x[i] - S, the centred *)
(* entry is c[i] / n and the (unbiased) variance of the column is          *)
(* sum(c[i]^2) / (n^2 * (n - 1)); for n = 1 it is 0 / 0, which torch       *)
(* reports as nan.                                                         *)
(***************************************************************************)
MaxRows == 2        \* most rows of X
MaxCols == 2        \* most columns of X
std_threshold == 10 \* 1e-9, in units of 1e-10

Values == {0, 4, 40}

Columns(n) == [1..n -> Values]

RECURSIVE sum(_)
sum(c) == IF c = <<>> THEN 0 ELSE Head(c) + sum(Tail(c))

InitStd ==
    /\ t_pc = "start"
    /\ st_X \in UNION {[1..d -> Columns(n)] : n \in 1..MaxRows, d \in 1..MaxCols}
    /\ st_X_std = <<>>
    /\ st_result = <<>>

\* n * (X - X.mean(dim=0)) for one column
centred(c) == [i \in 1..Len(c) |-> Len(c) * c[i] - sum(c)]

squares(c) == [i \in 1..Len(c) |-> c[i] * c[i]]

One == [one |-> TRUE, nan |-> FALSE, num |-> 1, den |-> 1]

\* the standard deviation of a sample, by its square num / den
std_of(c) ==
    [one |-> FALSE, nan |-> Len(c) < 2,
     num |-> sum(squares(centred(c))),
     den |-> Len(c) * Len(c) * (Len(c) - 1)]

\* transforms.py:24: X.std(dim=0)
std_dim0(X) == [j \in 1..Len(X) |-> std_of(X[j])]

\* X_std >= 1e-9, elementwise; a comparison with nan is False
ge_threshold(sd) ==
    /\ ~sd.nan
    /\ sd.num >= std_threshold * std_threshold * sd.den

\* fault variant of where_ge_threshold: the standard deviation is used as it is
where_always(X_std) == X_std

\* transforms.py:25: X_std.where(X_std >= 1e-9, torch.full_like(X_std, 1.0))
where_ge_threshold(X_std) ==
    [j \in 1..Len(X_std) |-> IF ge_threshold(X_std[j]) THEN X_std[j] ELSE One]

\* transforms.py:26: the entry c / n divided by div; the quotient is kept as
\* the pair of its operands
divide(X, X_std) ==
    [j \in 1..Len(X) |->
       [i \in 1..Len(X[j]) |->
          [c |-> centred(X[j])[i], n |-> Len(X[j]), div |-> X_std[j]]]]

\* transforms.py:24-26
standardize ==
    /\ UNCHANGED frame_std
    /\ t_pc = "start"
    /\ st_X_std' = where_ge_threshold(std_dim0(st_X))
    /\ st_result' = divide(st_X, st_X_std')
    /\ t_pc' = "done"
    /\ UNCHANGED st_X

NextStd == standardize

(***************************************************************************)
(* Specifications: one per operation; the variables of the other           *)
(* operations stay at their initial values.                                *)
(***************************************************************************)
vars == <<vars_seq, vars_gen, vars_acq, vars_fwd, vars_rs, vars_std>>

IdleSeq ==
    /\ s_pc = "start" /\ has_X_baseline = FALSE /\ X_baseline = NoneT /\ q = 0
    /\ post_processing_func = "None" /\ candidate_list = <<>> /\ candidates = <<>>
    /\ base_X_baseline = NoneT /\ s_exc = "none" /\ jo_calls = <<>>
    /\ jo_results = <<>> /\ entry_X_baseline = NoneT

IdleGen ==
    /\ g_pc = "loop" /\ factor = 1 /\ raw_samples = 1
    /\ batch_initial_candidates = NoCandidates /\ g_result = NoCandidates
    /\ caller_warnings = <<>> /\ attempts = <<>>

IdleAcq ==
    /\ a_pc = "start" /\ acquisition_function_name = "" 
    /\ acquisition_function_args = NoneDict /\ posterior_mean = <<0>>
    /\ objective = "identity" /\ constraints = "None" /\ seed_arg = "None"
    /\ a_module = NoModule /\ a_exc = "none" /\ posterior_queries = 0
    /\ init_calls = 0 /\ printed = <<>>

IdleFwd ==
    /\ cls = "qExpectedImprovement" /\ X_pending = NoneT /\ seed = NoneInt
    /\ X_observed_len = 0 /\ base_samples = NoBaseSamples
    /\ base_samples_q_batch_size = NoneInt /\ f_pc = "new"
    /\ f_X = TensorOf(2, 1, 1, 0) /\ f_arg = TensorOf(2, 1, 1, 0)
    /\ f_result = <<>> /\ probe = TensorOf(2, 1, 1, 0)
    /\ probe_result = NoResult /\ probe_hist = 0

IdleRs ==
    /\ r_pc = "start" /\ event_shape = <<1>> /\ sample_shape = NoneShape
    /\ rs_base_samples = NoneShape /\ r_kwargs = {} /\ r_draws = 0
    /\ r_result = NoneShape /\ r_exc = "none"

IdleStd ==
    /\ t_pc = "start" /\ st_X = <<<<0>>>> /\ st_X_std = <<>> /\ st_result = <<>>

Init_Seq == InitSeq /\ IdleGen /\ IdleAcq /\ IdleFwd /\ IdleRs /\ IdleStd

SpecSeq == Init_Seq /\ [][NextSeq]_vars

Init_Gen == InitGen /\ IdleSeq /\ IdleAcq /\ IdleFwd /\ IdleRs /\ IdleStd

SpecGen == Init_Gen /\ [][NextGen]_vars

Init_Acq == InitAcq /\ IdleSeq /\ IdleGen /\ IdleFwd /\ IdleRs /\ IdleStd

SpecAcq == Init_Acq /\ [][NextAcq]_vars

Init_Fwd == InitFwd /\ IdleSeq /\ IdleGen /\ IdleAcq /\ IdleRs /\ IdleStd

SpecFwd == Init_Fwd /\ [][NextFwd]_vars

Init_Rs == InitRs /\ IdleSeq /\ IdleGen /\ IdleAcq /\ IdleFwd /\ IdleStd

SpecRs == Init_Rs /\ [][NextRs]_vars

Init_Std == InitStd /\ IdleSeq /\ IdleGen /\ IdleAcq /\ IdleFwd /\ IdleRs

SpecStd == Init_Std /\ [][NextStd]_vars

(***************************************************************************)
(* Properties of sequential_optimize (checked under SpecSeq)               *)
(***************************************************************************)

\* C1: called with an acquisition function that has no X_baseline attribute,
\* sequential_optimize raises UnsupportedError before any call of
\* joint_optimize and leaves the acquisition function as it was.
C1_UnsupportedWithoutXBaseline ==
    (~has_X_baseline /\ s_pc # "start") =>
        /\ s_pc = "raised"
        /\ s_exc = "UnsupportedError"
        /\ jo_calls = <<>>
        /\ X_baseline = entry_X_baseline

C1_Witness == ~has_X_baseline /\ s_pc = "raised" /\ q >= 1

\* C2: whenever sequential_optimize returns normally, X_baseline equals the
\* value it had on entry, for every q >= 0 and every initial X_baseline.
C2_XBaselineRestored ==
    s_pc = "done" => X_baseline = entry_X_baseline

C2_Witness ==
    /\ s_pc = "done"
    /\ q >= 1
    /\ Len(candidates) = q
    /\ ~entry_X_baseline.none
    /\ entry_X_baseline.pts # <<>>

\* C3 as stated: with q >= 1 there are exactly q calls of joint_optimize, each
\* with q=1, and the return value is the concatenation of their results in
\* the order of the calls.
C3_ReturnsJointOptimizeResults ==
    (s_pc = "done" /\ q >= 1) =>
        /\ Len(jo_calls) = q
        /\ \A k \in 1..Len(jo_calls) : jo_calls[k] = 1
        /\ candidates = cat(jo_results)

\* C3 amended: with q >= 1 there are exactly q calls of joint_optimize, each
\* with q=1, and the return value is the concatenation, in the order of the
\* calls, of their results, each passed through post_processing_func when one
\* is given; it has q points.
C3_ReturnsPostProcessedResults ==
    (s_pc = "done" /\ q >= 1) =>
        /\ Len(jo_calls) = q
        /\ \A k \in 1..Len(jo_calls) : jo_calls[k] = 1
        /\ Len(jo_results) = q
        /\ Len(candidates) = q
        /\ \A k \in 1..q :
              candidates[k] =
                 ApplyPostProcessing(post_processing_func, jo_results[k])[1]

C3_Witness ==
    /\ s_pc = "done"
    /\ q >= 2
    /\ post_processing_func # "None"
    /\ candidates # cat(jo_results)
    /\ jo_results[1] # jo_results[2]

(***************************************************************************)
(* Properties of gen_batch_initial_candidates (checked under SpecGen)      *)
(***************************************************************************)
Bad(k) == BadInitialCandidatesWarning \in attempts[k].ws

\* C4: gen_batch_initial_candidates returns the candidates of the first
\* attempt during which no BadInitialCandidatesWarning was raised, and that
\* attempt is the last one: nothing is drawn or evaluated after it.
C4_ReturnsFirstGoodAttempt ==
    \A k \in 1..Len(attempts) :
        (~Bad(k) /\ \A j \in 1..(k - 1) : Bad(j)) =>
            /\ g_pc = "returned"
            /\ g_result = attempts[k].candidates
            /\ Len(attempts) = k

C4_Witness ==
    /\ g_pc = "returned"
    /\ Len(attempts) >= 2
    /\ attempts[Len(attempts)].ws = {"RuntimeWarning"}
    /\ attempts[Len(attempts)].candidates # attempts[1].candidates

\* C5: if every attempt raised a BadInitialCandidatesWarning, the function
\* returns the candidates of the last attempt and exactly one
\* BadInitialCandidatesWarning reaches the caller.
C5_AllBadWarnsOnceReturnsLast ==
    (g_pc = "returned" /\ \A k \in 1..Len(attempts) : Bad(k)) =>
        /\ caller_warnings = <<BadInitialCandidatesWarning>>
        /\ Len(attempts) >= 1
        /\ ~g_result.none
        /\ g_result = attempts[Len(attempts)].candidates

C5_Witness ==
    /\ g_pc = "returned"
    /\ Len(attempts) = max_factor - 1
    /\ \A k \in 1..Len(attempts) : Bad(k)
    /\ attempts[Len(attempts)].candidates # attempts[1].candidates

(***************************************************************************)
(* Properties of get_acquisition_function (checked under SpecAcq)          *)
(***************************************************************************)
KnownNames == {"qEI", "qPI", "qNEI", "qKG", "qUCB", "qKGNoDiscretization"}

\* C6: for every name other than the six known ones get_acquisition_function
\* raises NotImplementedError, without a posterior query and without
\* constructing a module.
C6_UnknownNameNotImplemented ==
    (acquisition_function_name \notin KnownNames /\ a_pc # "start") =>
        /\ a_pc = "raised"
        /\ a_exc = "NotImplementedError"
        /\ posterior_queries = 0
        /\ init_calls = 0
        /\ a_module = NoModule

C6_Witness ==
    /\ acquisition_function_name = "qei"
    /\ a_pc = "raised"
    /\ ~acquisition_function_args.none

\* C7: with name 'qUCB', ValueError is raised whenever the args are None,
\* empty or lack 'beta'; otherwise a qUpperConfidenceBound is returned whose
\* beta is acquisition_function_args['beta'], also when that is 0.
C7_qUCBNeedsBeta ==
    (acquisition_function_name = "qUCB" /\ a_pc # "start") =>
        IF acquisition_function_args.none
           \/ "beta" \notin DOMAIN acquisition_function_args.d
        THEN a_pc = "raised" /\ a_exc = "ValueError" /\ a_module = NoModule
        ELSE /\ a_pc = "returned"
             /\ a_module.cls = "qUpperConfidenceBound"
             /\ a_module.kw.beta = acquisition_function_args.d["beta"]

C7_Witness ==
    /\ acquisition_function_name = "qUCB"
    /\ a_pc = "returned"
    /\ a_module.cls = "qUpperConfidenceBound"
    /\ a_module.kw.beta = 0

\* C8: with name 'qPI', get_acquisition_function returns a
\* qProbabilityOfImprovement whose best_f is the maximum posterior mean of
\* the model over X_observed.
C8_qPIReturnsModule ==
    (acquisition_function_name = "qPI" /\ a_pc # "start") =>
        /\ a_pc = "returned"
        /\ a_module.cls = "qProbabilityOfImprovement"
        /\ a_module.kw.best_f = max(posterior_mean)

(***************************************************************************)
(* Properties of BatchAcquisitionFunction.forward (checked under SpecFwd)  *)
(***************************************************************************)

\* C9: with X_pending set (q' points), _forward receives a tensor with q + q'
\* points per t-batch: the q points of X followed by the q' pending points;
\* with X_pending None it receives X unchanged.  forward returns one value
\* per t-batch.
C9_ForwardAppendsPending ==
    f_pc = "called" =>
        /\ f_arg.dim = f_X.dim
        /\ Len(f_arg.b) = Len(f_X.b)
        /\ Len(f_result) = Len(f_X.b)
        /\ IF X_pending.none
           THEN f_arg = f_X
           ELSE \A i \in 1..Len(f_X.b) :
                  LET n == Len(f_X.b[i])
                      m == Len(X_pending.pts)
                  IN /\ Len(f_arg.b[i]) = n + m
                     /\ \A j \in 1..n : f_arg.b[i][j] = f_X.b[i][j]
                     /\ \A j \in 1..m : f_arg.b[i][n + j] = X_pending.pts[j]

C9_Witness ==
    /\ f_pc = "called"
    /\ ~X_pending.none
    /\ Len(X_pending.pts) >= 2
    /\ f_X.dim = 3
    /\ Len(f_X.b) >= 2
    /\ Len(f_X.b[1]) >= 2
    /\ f_X.b[1] # f_X.b[2]

\* C10: with a seed, every forward call on the tensor probe returns what the
\* first forward call on probe returned, whatever forward calls happened
\* before or in between.
C10_SeededForwardIsFixed ==
    (~seed.none /\ f_pc = "called" /\ f_X = probe) =>
        /\ ~probe_result.none
        /\ f_result = probe_result.v

C10_Witness ==
    /\ ~seed.none
    /\ f_pc = "called"
    /\ f_X = probe
    /\ probe_hist = 3

(***************************************************************************)
(* Properties of GPyTorchPosterior.rsample (checked under SpecRs)          *)
(***************************************************************************)

\* C11: called with both sample_shape and base_samples, rsample raises
\* RuntimeError, without drawing a sample, exactly when the leading
\* len(sample_shape) dimensions of base_samples differ from sample_shape.
C11_RaisesIffLeadingDimsDiffer ==
    (~sample_shape.none /\ ~rs_base_samples.none /\ r_pc # "start") =>
        LET n == Len(sample_shape.dims)
            differ == \/ Len(rs_base_samples.dims) < n
                      \/ \E k \in 1..n :
                            /\ k <= Len(rs_base_samples.dims)
                            /\ rs_base_samples.dims[k] # sample_shape.dims[k]
        IN IF differ
           THEN r_pc = "raised" /\ r_exc = "RuntimeError" /\ r_draws = 0
           ELSE r_pc = "returned" /\ r_exc = "none" /\ r_draws = 1

C11_Witness ==
    /\ r_pc = "raised"
    /\ ~sample_shape.none
    /\ ~rs_base_samples.none
    /\ Len(sample_shape.dims) = 2
    /\ Len(rs_base_samples.dims) >= 2
    /\ rs_base_samples.dims[1] = sample_shape.dims[1]
    /\ rs_base_samples.dims[2] # sample_shape.dims[2]

(***************************************************************************)
(* Properties of standardize (checked under SpecStd)                       *)
(***************************************************************************)
NRows == Len(st_X[1])

\* the standard deviation of column j is below (at least) 1e-9
StdBelow(j) ==
    /\ NRows >= 2
    /\ sum(squares(centred(st_X[j])))
          < std_threshold * std_threshold * NRows * NRows * (NRows - 1)

StdAtLeast(j) ==
    /\ NRows >= 2
    /\ sum(squares(centred(st_X[j])))
          >= std_threshold * std_threshold * NRows * NRows * (NRows - 1)

Constant(j) == \A i \in 1..NRows : st_X[j][i] = st_X[j][1]

AllZeros(j) == \A i \in 1..NRows : st_result[j][i].c = 0

\* the entries of column j of the result are those of column j of X minus
\* the mean of that column
Centred(j) ==
    /\ Len(st_result[j]) = NRows
    /\ \A i \in 1..NRows :
          st_result[j][i].c + sum(st_X[j]) = NRows * st_X[j][i]

\* column j of the result is divided by the standard deviation of column j
\* of X, which is not zero: the column has unit variance
DividedByOwnStd(j) ==
    /\ \A i \in 1..NRows :
          /\ ~st_result[j][i].div.one
          /\ ~st_result[j][i].div.nan
          /\ st_result[j][i].div.num > 0
          /\ st_result[j][i].div.den > 0
          /\ st_result[j][i].div.num = sum(squares(centred(st_X[j])))
          /\ st_result[j][i].div.num * NRows * NRows * (NRows - 1) =
                sum([k \in 1..NRows |-> st_result[j][k].c * st_result[j][k].c])
                  * st_result[j][i].div.den

DividedByOne(j) == \A i \in 1..NRows : st_result[j][i].div = One

\* C12 as stated: every column whose standard deviation is below 1e-9 is
\* mapped to all zeros, being divided by 1; the other columns are centred
\* and divided by their own standard deviation.
C12_LowStdColumnsToZeros ==
    t_pc = "done" =>
        \A j \in 1..Len(st_X) :
            /\ StdBelow(j) => (DividedByOne(j) /\ AllZeros(j))
            /\ StdAtLeast(j) => (Centred(j) /\ DividedByOwnStd(j))

\* C12 amended: every column whose standard deviation is not at least 1e-9
\* (below it, or undefined as for a single row) is divided by 1, so it is
\* only centred; every constant column is thereby mapped to all zeros.  The
\* other columns are centred and divided by their own standard deviation,
\* which is not zero.
C12_LowStdColumnsCentredOnly ==
    t_pc = "done" =>
        /\ Len(st_result) = Len(st_X)
        /\ \A j \in 1..Len(st_X) :
              /\ Centred(j)
              /\ ~StdAtLeast(j) => DividedByOne(j)
              /\ Constant(j) => (DividedByOne(j) /\ AllZeros(j))
              /\ StdAtLeast(j) => DividedByOwnStd(j)

C12_Witness ==
    /\ t_pc = "done"
    /\ Len(st_X) = 2
    /\ StdBelow(1) /\ ~Constant(1) /\ DividedByOne(1) /\ ~AllZeros(1)
    /\ StdAtLeast(2) /\ DividedByOwnStd(2)

(***************************************************************************)
(* Properties of qKnowledgeGradient._forward (checked under SpecFwd)       *)
(***************************************************************************)

\* C13: qKnowledgeGradient._forward returns exactly one element per t-batch
\* of its argument, element i being the value computed for t-batch i alone,
\* in input order; a two-dimensional argument is one t-batch and yields one
\* element.
C13_qKGOneValuePerTBatch ==
    (cls = "qKnowledgeGradient" /\ f_pc = "called") =>
        /\ Len(f_result) = IF f_arg.dim = 2 THEN 1 ELSE Len(f_arg.b)
        /\ \A i \in 1..Len(f_result) : f_result[i].X = f_arg.b[i]
        /\ \A i, j \in 1..Len(f_result) :
              f_arg.b[i] = f_arg.b[j] => f_result[i] = f_result[j]

C13_Witness ==
    /\ cls = "qKnowledgeGradient"
    /\ f_pc = "called"
    /\ f_arg.dim = 3
    /\ Len(f_arg.b) >= 2
    /\ f_arg.b[1] # f_arg.b[2]
    /\ Len(f_result) = Len(f_arg.b)

====
